---- MODULE Spec2Model ----
(***************************************************************************)
(* A model of the bd issue tracker's storage layer (src/bd/src): the       *)
(* Issue type with its content hash and validation (types.rs) and the      *)
(* SQLite-backed Storage implementation (storage/sqlite.rs).               *)
(*                                                                         *)
(* Text is modelled as sequences of byte values, Option<T> as a sequence   *)
(* of length 0 (None) or 1 (Some), timestamps as abstract instants.        *)
(***************************************************************************)
EXTENDS Integers, Sequences, FiniteSets, TLC

(***************************************************************************)
(* Option<T>                                                               *)
(***************************************************************************)
None == <<>>

Some(x) == <<x>>

IsSome(o) == Len(o) = 1

Unwrap(o) == o[1]

(***************************************************************************)
(* Issue ids of the model, and their UTF-8 bytes                           *)
(***************************************************************************)
IssueIds == {"bd-1", "bd-2"}

IdBytes(id) == IF id = "bd-1" THEN <<98, 100, 45, 49>> ELSE <<98, 100, 45, 50>>

(***************************************************************************)
(* types.rs: enums and their as_str() text, as ASCII bytes                 *)
(***************************************************************************)
Status == {"open", "in_progress", "blocked", "closed"}

IssueType == {"bug", "feature", "task", "epic", "chore"}

DependencyType == {"blocks", "related", "parent-child", "discovered-from"}

\* Status::as_str / IssueType::as_str, as the bytes of the returned &str
as_str(v) ==
    CASE v = "open"        -> <<111, 112, 101, 110>>
      [] v = "in_progress" -> <<105, 110, 95, 112, 114, 111, 103, 114, 101, 115, 115>>
      [] v = "blocked"     -> <<98, 108, 111, 99, 107, 101, 100>>
      [] v = "closed"      -> <<99, 108, 111, 115, 101, 100>>
      [] v = "bug"         -> <<98, 117, 103>>
      [] v = "feature"     -> <<102, 101, 97, 116, 117, 114, 101>>
      [] v = "task"        -> <<116, 97, 115, 107>>
      [] v = "epic"        -> <<101, 112, 105, 99>>
      [] v = "chore"       -> <<99, 104, 111, 114, 101>>

\* format!("{}", n) for a non-negative n: its decimal digits
RECURSIVE Digits(_)
Digits(n) == IF n < 10 THEN <<48 + n>> ELSE Digits(n \div 10) \o <<48 + (n % 10)>>

\* format!("{}", self.priority) for an i32
FormatInt(n) == IF n < 0 THEN <<45>> \o Digits(-n) ELSE Digits(n)

(***************************************************************************)
(* types.rs: Issue::compute_content_hash                                   *)
(***************************************************************************)
\* the separator byte fed to the hasher after each field
Separator == <<0>>

\* SHA-256 taken as collision free: a digest stands for the bytes hashed
Sha256(bytes) == [sha256_of |-> bytes]

\* the bytes compute_content_hash feeds to the hasher, in order
HashInput(issue) ==
    issue.title \o Separator
    \o issue.description \o Separator
    \o issue.design \o Separator
    \o issue.acceptance_criteria \o Separator
    \o issue.notes \o Separator
    \o as_str(issue.status) \o Separator
    \o FormatInt(issue.priority) \o Separator
    \o as_str(issue.issue_type) \o Separator
    \o issue.assignee \o Separator
    \o (IF IsSome(issue.external_ref) THEN Unwrap(issue.external_ref) ELSE <<>>)

\* a hash that also feeds the issue ID to the hasher
compute_content_hash_with_id(issue) ==
    Sha256(IdBytes(issue.id) \o Separator \o HashInput(issue))

compute_content_hash(issue) == Sha256(HashInput(issue))

(***************************************************************************)
(* types.rs: Issue::validate; TRUE stands for Ok(()), FALSE for Err(_)     *)
(***************************************************************************)
MaxTitleLen == 500

validate(issue) ==
    /\ Len(issue.title) # 0
    /\ Len(issue.title) <= MaxTitleLen
    /\ issue.priority \in 0..4
    /\ issue.status \in Status          \* Status::is_valid is always true
    /\ issue.issue_type \in IssueType   \* IssueType::is_valid is always true
    /\ (IsSome(issue.estimated_minutes) => Unwrap(issue.estimated_minutes) >= 0)
    /\ ~(issue.status = "closed" /\ ~IsSome(issue.closed_at))
    /\ ~(issue.status # "closed" /\ IsSome(issue.closed_at))

(***************************************************************************)
(* The state: the tables of the SQLite database behind one SqliteStorage   *)
(* handle, the handle's mutex, and the threads that share the handle.      *)
(***************************************************************************)
VARIABLES
    issues,         \* table issues: id -> None | Some(row)
    dependencies,   \* table dependencies: set of rows
    labels,         \* table labels: set of <<issue_id, label>>
    comments,       \* table comments: sequence of rows, rowid = index
    events,         \* table events: sequence of rows, in insertion order
    dirty_issues,   \* table dirty_issues: issue ids in marked_at order
    export_hashes,  \* table export_hashes: id -> None | Some(hash)
    metadata,       \* table metadata: key -> None | Some(value)
    child_counters, \* table child_counters: parent_id -> None | Some(last_child)
    last,           \* the call that returned last, and its result
    owner,          \* SqliteStorage.conn: the thread holding the mutex
    poisoned,       \* SqliteStorage.conn: the mutex's poison flag
    pc,             \* per thread: where it is in its Storage call
    todo,           \* per thread: statements left in its locked section
    queue,          \* per thread: Storage calls its current call still makes
    dirty_read,     \* per thread: what its last get_dirty_issues returned
    child_read,     \* per thread: last_child as its get_next_child_id read it
    returned,       \* the ids get_next_child_id has returned, in order of return
    issueA,         \* compute_content_hash: first input
    issueB,         \* compute_content_hash: second input
    hashA,          \* compute_content_hash(issueA), once computed
    hashB,          \* compute_content_hash(issueB), once computed
    edits,          \* number of field changes made to issueA and issueB
    candidate,      \* Issue::validate: the issue it is called on
    verdict         \* Issue::validate: is the result Ok(()), once it returned

storeVars == <<issues, dependencies, labels, comments, events, dirty_issues,
               export_hashes, metadata, child_counters>>

threadVars == <<owner, poisoned, pc, todo, queue, dirty_read, child_read, returned>>

hashVars == <<issueA, issueB, hashA, hashB, edits, candidate, verdict>>

vars == <<storeVars, last, threadVars, hashVars>>

(***************************************************************************)
(* Text used by the model, as UTF-8 bytes                                  *)
(***************************************************************************)
TextA == <<97>>

TextB == <<98>>

Empty == <<>>

MetadataKeys == {"jsonl_file_hash"}

(***************************************************************************)
(* The database as one value, so that a statement is a function on it      *)
(***************************************************************************)
DB ==
    [issues |-> issues, dependencies |-> dependencies, labels |-> labels,
     comments |-> comments, events |-> events, dirty_issues |-> dirty_issues,
     export_hashes |-> export_hashes, metadata |-> metadata,
     child_counters |-> child_counters]

Commit(db) ==
    /\ issues' = db.issues
    /\ dependencies' = db.dependencies
    /\ labels' = db.labels
    /\ comments' = db.comments
    /\ events' = db.events
    /\ dirty_issues' = db.dirty_issues
    /\ export_hashes' = db.export_hashes
    /\ metadata' = db.metadata
    /\ child_counters' = db.child_counters

EmptyDB ==
    [issues |-> [i \in IssueIds |-> None], dependencies |-> {}, labels |-> {},
     comments |-> <<>>, events |-> <<>>, dirty_issues |-> <<>>,
     export_hashes |-> [i \in IssueIds |-> None],
     metadata |-> [k \in MetadataKeys |-> None],
     child_counters |-> [i \in IssueIds |-> None]]

\* the sequence s without the elements equal to x
RECURSIVE Without(_, _)
Without(s, x) ==
    IF s = <<>> THEN <<>>
    ELSE IF Head(s) = x THEN Without(Tail(s), x)
    ELSE <<Head(s)>> \o Without(Tail(s), x)

Range(s) == {s[k] : k \in 1..Len(s)}

(***************************************************************************)
(* sqlite_schema.sql (included at sqlite.rs:12) is not among the sources.  *)
(* The tables are modelled with the keys the statements of sqlite.rs rely  *)
(* on (INSERT OR REPLACE / OR IGNORE need a key) and the data model of the *)
(* specification: issue id and external_ref unique, one edge per           *)
(* (issue_id, depends_on_id), no row-level CHECK and no referential check  *)
(* at write time (tolerant linking).                                       *)
(***************************************************************************)
\* the issues table takes the row: its id and its external_ref are unused
IssueKeyFree(db, issue) ==
    /\ db.issues[issue.id] = None
    /\ IsSome(issue.external_ref) =>
         \A j \in IssueIds :
            IsSome(db.issues[j]) => Unwrap(db.issues[j]).external_ref # issue.external_ref

\* the dependencies table takes the row: no edge has its endpoints
DependencyKeyFree(db, dep) ==
    \A d \in db.dependencies :
        ~(d.issue_id = dep.issue_id /\ d.depends_on_id = dep.depends_on_id)

\* the columns of table issues (sqlite.rs:84-87)
IssueColumns ==
    {"id", "content_hash", "title", "description", "design", "acceptance_criteria",
     "notes", "status", "priority", "issue_type", "assignee", "estimated_minutes",
     "created_at", "updated_at", "closed_at", "external_ref", "compaction_level",
     "compacted_at", "compacted_at_commit", "original_size", "source_repo"}

(***************************************************************************)
(* Column values: what a bound parameter becomes in its column             *)
(***************************************************************************)
\* the integer a string of decimal digits denotes (INTEGER column affinity)
RECURSIVE ParseInt(_)
ParseInt(bytes) ==
    IF bytes = <<>> THEN 0
    ELSE 10 * ParseInt(SubSeq(bytes, 1, Len(bytes) - 1)) + (bytes[Len(bytes)] - 48)

\* the row INSERT INTO issues stores for an Issue (sqlite.rs:89-111)
IssueRow(issue) ==
    [content_hash |-> issue.content_hash,
     title |-> issue.title,
     description |-> issue.description,
     design |-> issue.design,
     acceptance_criteria |-> issue.acceptance_criteria,
     notes |-> issue.notes,
     status |-> as_str(issue.status),
     priority |-> issue.priority,
     issue_type |-> as_str(issue.issue_type),
     assignee |-> issue.assignee,
     estimated_minutes |-> issue.estimated_minutes,
     created_at |-> issue.created_at,
     updated_at |-> issue.updated_at,
     closed_at |-> issue.closed_at,
     external_ref |-> issue.external_ref,
     compaction_level |-> issue.compaction_level,
     compacted_at |-> issue.compacted_at,
     compacted_at_commit |-> issue.compacted_at_commit,
     original_size |-> issue.original_size,
     source_repo |-> issue.source_repo]

\* Utc::now(): an instant later than every instant a caller passes in
Now == "now"

(***************************************************************************)
(* SqliteStorage::record_event and SqliteStorage::mark_dirty               *)
(***************************************************************************)
EventRow(issue_id, event_type, actor, old_value, new_value, comment) ==
    [issue_id |-> issue_id, event_type |-> event_type, actor |-> actor,
     old_value |-> old_value, new_value |-> new_value, comment |-> comment]

\* an insert that takes the place of the newest row of the table
record_event_replacing(db, e) ==
    [db EXCEPT !.events = IF @ = <<>> THEN <<e>> ELSE [@ EXCEPT ![Len(@)] = e]]

\* INSERT INTO events: a new row after the rows the table holds
record_event(db, e) == [db EXCEPT !.events = Append(@, e)]

\* a mark_dirty that leaves the table alone
mark_dirty_skipped(db, issue_id) == db

\* a plain INSERT: a row marked now is added and an older row of issue_id stays
mark_dirty_appended(db, issue_id) == [db EXCEPT !.dirty_issues = Append(@, issue_id)]

\* a REPLACE that takes the place of every row of the table
mark_dirty_alone(db, issue_id) == [db EXCEPT !.dirty_issues = <<issue_id>>]

\* INSERT OR REPLACE: the row of issue_id is replaced by one marked now
mark_dirty(db, issue_id) ==
    [db EXCEPT !.dirty_issues = Append(Without(@, issue_id), issue_id)]

(***************************************************************************)
(* The SQL statements of sqlite.rs. A statement either takes effect as a   *)
(* whole or fails and changes nothing; the connection is in autocommit     *)
(* mode (no statement of sqlite.rs opens a transaction), so the effect of  *)
(* a statement is durable as soon as it returns.                           *)
(***************************************************************************)
SInsertIssue(issue) == [k |-> "insert_issue", issue |-> issue]

SRecordEvent(e) == [k |-> "record_event", event |-> e]

SMarkDirty(id) == [k |-> "mark_dirty", id |-> id]

SUpdateColumn(id, key, value) ==
    [k |-> "update_column", id |-> id, key |-> key, value |-> value]

SCloseRow(id) == [k |-> "close_row", id |-> id]

SInsertDependency(dep) == [k |-> "insert_dependency", dep |-> dep]

SDeleteDependency(issue_id, depends_on_id) ==
    [k |-> "delete_dependency", issue_id |-> issue_id, depends_on_id |-> depends_on_id]

SInsertLabel(id, label) == [k |-> "insert_label", id |-> id, label |-> label]

SDeleteLabel(id, label) == [k |-> "delete_label", id |-> id, label |-> label]

SInsertComment(id, author, text) ==
    [k |-> "insert_comment", id |-> id, author |-> author, text |-> text]

SSelectDirty == [k |-> "select_dirty"]

SDeleteDirtyAll == [k |-> "delete_dirty_all"]

SDeleteDirty(id) == [k |-> "delete_dirty", id |-> id]

SSelectIssue(id) == [k |-> "select_issue", id |-> id]

SSelectByExternalRef(ref) == [k |-> "select_by_external_ref", ref |-> ref]

SSetMetadata(key, value) == [k |-> "set_metadata", key |-> key, value |-> value]

SGetMetadata(key) == [k |-> "get_metadata", key |-> key]

SDeleteIssue(id) == [k |-> "delete_issue", id |-> id]

SSetExportHash(id, hash) == [k |-> "set_export_hash", id |-> id, hash |-> hash]

SGetExportHash(id) == [k |-> "get_export_hash", id |-> id]

SDeleteExportHashes == [k |-> "delete_export_hashes"]

SSelectLabels(id) == [k |-> "select_labels", id |-> id]

SSelectChildCounter(parent_id) == [k |-> "select_child_counter", parent_id |-> parent_id]

\* the statement with next_child bound to its second parameter
SUpsertChildCounter(parent_id, next_child) ==
    [k |-> "upsert_child_counter", parent_id |-> parent_id, next_child |-> next_child]

\* the value a bound text parameter takes in the column named key
ColumnValue(key, value) ==
    IF key \in {"priority", "estimated_minutes", "compaction_level", "original_size"}
    THEN ParseInt(value)
    ELSE value

\* UPDATE issues SET {key} = ?, updated_at = ? WHERE id = ?  (sqlite.rs:194-195)
UpdateColumn(db, id, key, value) ==
    IF db.issues[id] = None THEN db
    ELSE [db EXCEPT !.issues[id] =
            Some([Unwrap(@) EXCEPT ![key] = ColumnValue(key, value),
                                   !.updated_at = Now])]

\* UPDATE issues SET status = ?, closed_at = ?, updated_at = ? WHERE id = ?
CloseRow(db, id) ==
    IF db.issues[id] = None THEN db
    ELSE [db EXCEPT !.issues[id] =
            Some([Unwrap(@) EXCEPT !.status = as_str("closed"),
                                   !.closed_at = Some(Now),
                                   !.updated_at = Now])]

\* the ids of the rows whose external_ref is ref
ByExternalRef(db, ref) ==
    {i \in IssueIds : IsSome(db.issues[i]) /\ Unwrap(db.issues[i]).external_ref = Some(ref)}

\* a DELETE that matches no row of issues
DeleteIssueRowNowhere(db, id) == db

\* DELETE FROM issues WHERE id = ?  (sqlite.rs:221)
DeleteIssueRow(db, id) == [db EXCEPT !.issues[id] = None]

\* What the schema does when the row of id leaves table issues. The
\* specification: an explicit delete also cascades edge, label and comment
\* removal; events are never deleted.
Cascade(db, id) ==
    [db EXCEPT
        !.dependencies = {d \in @ : d.issue_id # id /\ d.depends_on_id # id},
        !.labels = {l \in @ : l[1] # id},
        !.comments = SelectSeq(@, LAMBDA c : c.issue_id # id)]

\* serde_json::from_str::<T>(text).ok() for the enums Status and IssueType:
\* Some(v) when text is the JSON string of v's serde name (the name as_str
\* returns, between double quotes), None when text is not JSON for a variant
from_json_str(domain, text) ==
    IF \E v \in domain : text = <<34>> \o as_str(v) \o <<34>>
    THEN Some(CHOOSE v \in domain : text = <<34>> \o as_str(v) \o <<34>>)
    ELSE None

\* the closure of get_issue can build an Issue from the row: both
\* serde_json::from_str(..).unwrap() calls get an Ok (sqlite.rs:147, 149)
Decodes(row) ==
    /\ IsSome(from_json_str(Status, row.status))
    /\ IsSome(from_json_str(IssueType, row.issue_type))

\* a SELECT that takes the rows it returns out of dirty_issues
SelectConsuming(db) == [db EXCEPT !.dirty_issues = <<>>]

\* SELECT ...: the statements prepared by the queries read rows and change no
\* table (sqlite.rs:129-167, 330-334, 415-419, 443-449)
Select(db) == db

\* an insert that takes the label off again when the pair is already there
InsertLabelToggling(db, id, label) ==
    IF <<id, label>> \in db.labels
    THEN [db EXCEPT !.labels = @ \ {<<id, label>>}]
    ELSE [db EXCEPT !.labels = @ \cup {<<id, label>>}]

\* INSERT OR IGNORE INTO labels (issue_id, label)  (sqlite.rs:303-306)
InsertLabel(db, id, label) == [db EXCEPT !.labels = @ \cup {<<id, label>>}]

\* DELETE FROM labels WHERE issue_id = ? AND label = ?  (sqlite.rs:317-320)
DeleteLabel(db, id, label) == [db EXCEPT !.labels = @ \ {<<id, label>>}]

\* a DELETE that removes the oldest mark, whichever id it is for
DeleteDirtyOldest(db, id) ==
    [db EXCEPT !.dirty_issues = IF @ = <<>> THEN @ ELSE Tail(@)]

\* DELETE FROM dirty_issues WHERE issue_id = ?  (sqlite.rs:436)
DeleteDirty(db, id) == [db EXCEPT !.dirty_issues = Without(@, id)]

\* DELETE FROM dirty_issues  (sqlite.rs:429)
DeleteDirtyAll(db) == [db EXCEPT !.dirty_issues = <<>>]

\* an INSERT OR REPLACE that writes the hash into every row
SetExportHashEverywhere(db, id, hash) ==
    [db EXCEPT !.export_hashes = [i \in IssueIds |-> Some(hash)]]

\* INSERT OR REPLACE INTO export_hashes (issue_id, content_hash)
\* (sqlite.rs:455-458)
SetExportHash(db, id, hash) == [db EXCEPT !.export_hashes[id] = Some(hash)]

\* DELETE FROM export_hashes  (sqlite.rs:464)
DeleteExportHashes(db) == [db EXCEPT !.export_hashes = [i \in IssueIds |-> None]]

\* SELECT last_child FROM child_counters WHERE parent_id = ?, then
\* .unwrap_or(0): 0 when there is no row  (sqlite.rs:479-485)
SelectChildCounter(db, parent_id) ==
    IF db.child_counters[parent_id] = None THEN 0
    ELSE Unwrap(db.child_counters[parent_id])

\* let next_child = last_child + 1  (sqlite.rs:487)
NextChild(last_child) == last_child + 1

\* an INSERT OR IGNORE: a row that is already there stays as it is
UpsertChildCounterIgnoring(db, parent_id, next_child) ==
    IF db.child_counters[parent_id] = None
    THEN [db EXCEPT !.child_counters[parent_id] = Some(next_child)]
    ELSE db

\* INSERT OR REPLACE INTO child_counters (parent_id, last_child)
\* (sqlite.rs:489-492)
UpsertChildCounter(db, parent_id, next_child) ==
    [db EXCEPT !.child_counters[parent_id] = Some(next_child)]

\* format!("{}.{}", parent_id, next_child)  (sqlite.rs:494)
ChildId(parent_id, next_child) == IdBytes(parent_id) \o <<46>> \o FormatInt(next_child)

Ok(db) == [out |-> "ok", db |-> db]

Err(db) == [out |-> "err", db |-> db]

\* One statement on db. out is "ok", "err" (the statement failed: the caller's
\* `?` returns Err), "panic" (the caller unwraps an Err) or "relock" (the
\* caller goes on to lock the connection again, sqlite.rs:184).
Exec(db, s) ==
    CASE s.k = "insert_issue" ->
            IF IssueKeyFree(db, s.issue)
            THEN Ok([db EXCEPT !.issues[s.issue.id] = Some(IssueRow(s.issue))])
            ELSE Err(db)
      [] s.k = "record_event" -> Ok(record_event(db, s.event))
      [] s.k = "mark_dirty" -> Ok(mark_dirty(db, s.id))
      [] s.k = "update_column" ->
            IF s.key \in IssueColumns
            THEN Ok(UpdateColumn(db, s.id, s.key, s.value))
            ELSE Err(db)
      [] s.k = "close_row" -> Ok(CloseRow(db, s.id))
      [] s.k = "insert_dependency" ->
            IF DependencyKeyFree(db, s.dep)
            THEN Ok([db EXCEPT !.dependencies = @ \cup {s.dep}])
            ELSE Err(db)
      [] s.k = "delete_dependency" ->
            Ok([db EXCEPT !.dependencies =
                  {d \in @ : ~(d.issue_id = s.issue_id
                               /\ d.depends_on_id = s.depends_on_id)}])
      [] s.k = "insert_label" -> Ok(InsertLabel(db, s.id, s.label))
      [] s.k = "delete_label" -> Ok(DeleteLabel(db, s.id, s.label))
      [] s.k = "insert_comment" ->
            Ok([db EXCEPT !.comments =
                  Append(@, [issue_id |-> s.id, author |-> s.author, text |-> s.text])])
      [] s.k = "select_dirty" -> Ok(Select(db))
      [] s.k = "delete_dirty_all" -> Ok(DeleteDirtyAll(db))
      [] s.k = "delete_dirty" -> Ok(DeleteDirty(db, s.id))
      [] s.k = "select_issue" ->
            \* a row is decoded with serde_json::from_str(status).unwrap(), and the
            \* stored text (open, closed, ...) is not JSON (sqlite.rs:97, 147)
            IF db.issues[s.id] = None \/ Decodes(Unwrap(db.issues[s.id]))
            THEN Ok(Select(db))
            ELSE [out |-> "panic", db |-> Select(db)]
      [] s.k = "select_by_external_ref" ->
            IF ByExternalRef(db, s.ref) = {} THEN Ok(db) ELSE [out |-> "relock", db |-> db]
      [] s.k = "set_metadata" -> Ok([db EXCEPT !.metadata[s.key] = Some(s.value)])
      [] s.k = "get_metadata" -> Ok(db)
      [] s.k = "delete_issue" -> Ok(Cascade(DeleteIssueRow(db, s.id), s.id))
      [] s.k = "set_export_hash" -> Ok(SetExportHash(db, s.id, s.hash))
      [] s.k = "get_export_hash" -> Ok(Select(db))
      [] s.k = "delete_export_hashes" -> Ok(DeleteExportHashes(db))
      [] s.k = "select_labels" -> Ok(Select(db))
      [] s.k = "select_child_counter" -> Ok(Select(db))
      [] s.k = "upsert_child_counter" ->
            Ok(UpsertChildCounter(db, s.parent_id, s.next_child))

(***************************************************************************)
(* The Storage operations of sqlite.rs as the statements they run, in      *)
(* order, while they hold the connection lock. A call is a record naming   *)
(* the operation and its arguments.                                        *)
(***************************************************************************)
\* the statements of update_issue for the entries of `updates` from k on, in
\* the order the HashMap iterates them (sqlite.rs:193-198)
RECURSIVE UpdateLoop(_, _, _, _)
UpdateLoop(id, updates, actor, k) ==
    IF k > Len(updates) THEN <<>>
    ELSE <<SUpdateColumn(id, updates[k].key, updates[k].value),
           SRecordEvent(EventRow(id, "updated", actor, None,
                                 Some(updates[k].value), None))>>
         \o UpdateLoop(id, updates, actor, k + 1)

\* the statements of clear_dirty_issues_by_id for ids[k..] (sqlite.rs:435-437)
RECURSIVE ClearLoop(_, _)
ClearLoop(ids, k) ==
    IF k > Len(ids) THEN <<>> ELSE <<SDeleteDirty(ids[k])>> \o ClearLoop(ids, k + 1)

Stmts(c) ==
    CASE c.op = "create_issue" ->
            <<SInsertIssue(c.issue),
              SRecordEvent(EventRow(c.issue.id, "created", c.actor, None, None, None)),
              SMarkDirty(c.issue.id)>>
      [] c.op = "update_issue" ->
            UpdateLoop(c.id, c.updates, c.actor, 1) \o <<SMarkDirty(c.id)>>
      [] c.op = "close_issue" ->
            <<SCloseRow(c.id),
              SRecordEvent(EventRow(c.id, "closed", c.actor, None, None, Some(c.reason))),
              SMarkDirty(c.id)>>
      [] c.op = "add_dependency" ->
            <<SInsertDependency(c.dep),
              SRecordEvent(EventRow(c.dep.issue_id, "dependency_added", c.actor, None,
                                    Some(IdBytes(c.dep.depends_on_id)), None)),
              SMarkDirty(c.dep.issue_id)>>
      [] c.op = "remove_dependency" ->
            <<SDeleteDependency(c.issue_id, c.depends_on_id),
              SRecordEvent(EventRow(c.issue_id, "dependency_removed", c.actor,
                                    Some(IdBytes(c.depends_on_id)), None, None)),
              SMarkDirty(c.issue_id)>>
      [] c.op = "add_label" ->
            <<SInsertLabel(c.id, c.label),
              SRecordEvent(EventRow(c.id, "label_added", c.actor, None,
                                    Some(c.label), None)),
              SMarkDirty(c.id)>>
      [] c.op = "remove_label" ->
            <<SDeleteLabel(c.id, c.label),
              SRecordEvent(EventRow(c.id, "label_removed", c.actor, Some(c.label),
                                    None, None)),
              SMarkDirty(c.id)>>
      [] c.op = "add_issue_comment" ->
            <<SInsertComment(c.id, c.actor, c.text),
              SRecordEvent(EventRow(c.id, "commented", c.actor, None, None,
                                    Some(c.text))),
              SMarkDirty(c.id)>>
      [] c.op = "get_issue" -> <<SSelectIssue(c.id)>>
      [] c.op = "get_issue_by_external_ref" -> <<SSelectByExternalRef(c.ref)>>
      [] c.op = "get_dirty_issues" -> <<SSelectDirty>>
      [] c.op = "clear_dirty_issues" -> <<SDeleteDirtyAll>>
      [] c.op = "clear_dirty_issues_by_id" -> ClearLoop(c.ids, 1)
      [] c.op = "set_metadata" -> <<SSetMetadata(c.key, c.value)>>
      [] c.op = "get_metadata" -> <<SGetMetadata(c.key)>>
      [] c.op = "delete_issue" -> <<SDeleteIssue(c.id)>>
      [] c.op = "set_export_hash" -> <<SSetExportHash(c.id, c.hash)>>
      [] c.op = "get_export_hash" -> <<SGetExportHash(c.id)>>
      [] c.op = "clear_all_export_hashes" -> <<SDeleteExportHashes>>
      [] c.op = "get_labels" -> <<SSelectLabels(c.id)>>
      \* next_child is computed from what the first statement returns
      [] c.op = "get_next_child_id" ->
            <<SSelectChildCounter(c.parent_id), SUpsertChildCounter(c.parent_id, None)>>

\* the operations that take the lock themselves
LockingOps ==
    {"create_issue", "update_issue", "close_issue", "add_dependency",
     "remove_dependency", "add_label", "remove_label", "add_issue_comment",
     "get_issue", "get_issue_by_external_ref", "get_dirty_issues",
     "clear_dirty_issues", "clear_dirty_issues_by_id", "set_metadata", "get_metadata",
     "delete_issue", "set_export_hash", "get_export_hash", "clear_all_export_hashes",
     "get_labels", "get_next_child_id"}

\* the calls create_issues makes for issues[k..] (sqlite.rs:121-123)
RECURSIVE CreateEach(_, _, _)
CreateEach(issue_list, actor, k) ==
    IF k > Len(issue_list) THEN <<>>
    ELSE <<[op |-> "create_issue", issue |-> issue_list[k], actor |-> actor]>>
         \o CreateEach(issue_list, actor, k + 1)

\* The locking calls a call makes, in order; each returns before the next is
\* made, and an Err of one ends the whole call (`?`).
Calls(c) ==
    CASE c.op = "create_issues" -> CreateEach(c.issues, c.actor, 1)
      [] c.op = "add_comment" ->
            <<[op |-> "add_issue_comment", id |-> c.id, actor |-> c.actor,
               text |-> c.text]>>
      [] c.op = "get_jsonl_file_hash" ->
            <<[op |-> "get_metadata", key |-> "jsonl_file_hash"]>>
      [] c.op = "set_jsonl_file_hash" ->
            <<[op |-> "set_metadata", key |-> "jsonl_file_hash", value |-> c.value]>>
      [] OTHER -> <<c>>

\* all statements a call runs, over the locking calls it makes
RECURSIVE AllStmtsFrom(_, _)
AllStmtsFrom(cs, k) ==
    IF k > Len(cs) THEN <<>> ELSE Stmts(cs[k]) \o AllStmtsFrom(cs, k + 1)

AllStmts(c) == AllStmtsFrom(Calls(c), 1)

(***************************************************************************)
(* Running the statements of a call by one caller. The first statement     *)
(* that fails ends the call with Err (`?`); what the statements before it  *)
(* did stays, since nothing rolls them back.                               *)
(***************************************************************************)
RECURSIVE RunFrom(_, _, _)
RunFrom(db, stmts, k) ==
    IF k > Len(stmts) THEN [ok |-> TRUE, db |-> db, out |-> "ok"]
    ELSE LET r == Exec(db, stmts[k])
         IN  IF r.out = "ok" THEN RunFrom(r.db, stmts, k + 1)
             ELSE [ok |-> FALSE, db |-> r.db, out |-> r.out]

Run(db, c) == RunFrom(db, AllStmts(c), 1)

(***************************************************************************)
(* Bounds and inputs of the model                                          *)
(***************************************************************************)
\* mutating calls are made while the events table has fewer rows than this
MaxEvents == 2

\* the largest number of entries in an update map
MaxUpdates == 2

Threads == {"t1", "t2"}

\* the actor of the single-caller specification
Agent == "agent"

\* an issue as a command handler builds it: open, priority 2, hash computed
NewIssue(id) ==
    LET i == [id |-> id, content_hash |-> None, title |-> TextA,
              description |-> Empty, design |-> Empty,
              acceptance_criteria |-> Empty, notes |-> Empty,
              status |-> "open", priority |-> 2, issue_type |-> "task",
              assignee |-> Empty, estimated_minutes |-> None,
              created_at |-> "t0", updated_at |-> "t0", closed_at |-> None,
              external_ref |-> None, compaction_level |-> 0,
              compacted_at |-> None, compacted_at_commit |-> None,
              original_size |-> 0, source_repo |-> Empty,
              labels |-> <<>>, dependencies |-> <<>>, comments |-> <<>>]
    IN  [i EXCEPT !.content_hash = Some(compute_content_hash(i))]

\* i with its content_hash field set to the hash of its content
Hashed(i) == [i EXCEPT !.content_hash = Some(compute_content_hash(i))]

\* the issues passed to create_issue: valid ones, and ones validate rejects
\* (empty title, priority out of range, closed without closed_at)
IssueInputs(id) ==
    IF id = "bd-1"
    THEN {NewIssue(id),
          [NewIssue(id) EXCEPT !.content_hash = None],
          Hashed([NewIssue(id) EXCEPT !.status = "closed", !.closed_at = Some("t0")]),
          Hashed([NewIssue(id) EXCEPT !.title = Empty]),
          Hashed([NewIssue(id) EXCEPT !.priority = 5]),
          Hashed([NewIssue(id) EXCEPT !.status = "closed"])}
    ELSE {NewIssue(id)}

\* the ids that calls on one existing or missing issue name
TargetIds == {"bd-1"}

\* the entries of update maps: a column and the text to set it to
UpdateEntries ==
    {[key |-> "title", value |-> TextB],
     [key |-> "status", value |-> as_str("closed")],
     [key |-> "status", value |-> as_str("open")],
     [key |-> "priority", value |-> <<57>>],
     [key |-> "no_such_column", value |-> TextA]}

\* update maps in each order their entries can be iterated: no key twice
UpdateMaps ==
    {u \in UNION {[1..n -> UpdateEntries] : n \in 0..MaxUpdates} :
        \A a, b \in 1..Len(u) : a # b => u[a].key # u[b].key}

DependencyInputs ==
    {d \in {[issue_id |-> a, depends_on_id |-> b, dep_type |-> t,
      created_at |-> "t0", created_by |-> Agent] :
        a \in IssueIds, b \in IssueIds, t \in {"blocks"}} :
        d.issue_id # d.depends_on_id}

LabelInputs == {TextA}

CommentInputs == {TextB}

\* the lists of ids passed to clear_dirty_issues_by_id
IdLists == {<<"bd-1">>, <<"bd-2">>, <<"bd-1", "bd-2">>}

(***************************************************************************)
(* Initial state: an empty database behind a fresh handle                  *)
(***************************************************************************)
NoCall == [op |-> "none"]

\* Issue::validate has not been called
ValidateIdle ==
    /\ candidate = NewIssue("bd-1")
    /\ verdict = None

\* compute_content_hash inputs are not used by the storage specifications
HashIdle ==
    /\ issueA = NewIssue("bd-1")
    /\ issueB = NewIssue("bd-1")
    /\ hashA = None
    /\ hashB = None
    /\ edits = 0
    /\ ValidateIdle

ThreadsIdle ==
    /\ owner = None
    /\ poisoned = FALSE
    /\ pc = [t \in Threads |-> "idle"]
    /\ todo = [t \in Threads |-> <<>>]
    /\ queue = [t \in Threads |-> <<>>]
    /\ dirty_read = [t \in Threads |-> None]
    /\ child_read = [t \in Threads |-> 0]
    /\ returned = <<>>

StoreInit ==
    /\ issues = EmptyDB.issues
    /\ dependencies = EmptyDB.dependencies
    /\ labels = EmptyDB.labels
    /\ comments = EmptyDB.comments
    /\ events = EmptyDB.events
    /\ dirty_issues = EmptyDB.dirty_issues
    /\ export_hashes = EmptyDB.export_hashes
    /\ metadata = EmptyDB.metadata
    /\ child_counters = EmptyDB.child_counters
    /\ last = [call |-> NoCall, ok |-> TRUE]

Init == StoreInit /\ ThreadsIdle /\ HashIdle

(***************************************************************************)
(* One caller: each action is one Storage call from entry to return        *)
(***************************************************************************)
Perform(c) ==
    LET r == Run(DB, c)
    IN  /\ Commit(r.db)
        /\ last' = [call |-> c, ok |-> r.ok]
        /\ UNCHANGED <<threadVars, hashVars>>

\* create_issue called with issues that pass validate only
create_issue_validated ==
    /\ Len(events) < MaxEvents
    /\ \E id \in IssueIds : \E issue \in {i \in IssueInputs(id) : validate(i)} :
          Perform([op |-> "create_issue", issue |-> issue, actor |-> Agent])

create_issue ==
    /\ Len(events) < MaxEvents
    /\ \E id \in IssueIds : \E issue \in IssueInputs(id) :
          Perform([op |-> "create_issue", issue |-> issue, actor |-> Agent])

update_issue ==
    /\ Len(events) < MaxEvents
    /\ \E id \in TargetIds, u \in UpdateMaps :
          Perform([op |-> "update_issue", id |-> id, updates |-> u, actor |-> Agent])

close_issue ==
    /\ Len(events) < MaxEvents
    /\ \E id \in TargetIds :
          Perform([op |-> "close_issue", id |-> id, reason |-> TextA, actor |-> Agent])

add_dependency ==
    /\ Len(events) < MaxEvents
    /\ \E dep \in DependencyInputs :
          Perform([op |-> "add_dependency", dep |-> dep, actor |-> Agent])

remove_dependency ==
    /\ Len(events) < MaxEvents
    /\ \E a \in IssueIds : \E b \in IssueIds \ {a} :
          Perform([op |-> "remove_dependency", issue_id |-> a, depends_on_id |-> b,
                   actor |-> Agent])

add_label ==
    /\ Len(events) < MaxEvents
    /\ \E id \in TargetIds, l \in LabelInputs :
          Perform([op |-> "add_label", id |-> id, label |-> l, actor |-> Agent])

remove_label ==
    /\ Len(events) < MaxEvents
    /\ \E id \in TargetIds, l \in LabelInputs :
          Perform([op |-> "remove_label", id |-> id, label |-> l, actor |-> Agent])

add_issue_comment ==
    /\ Len(events) < MaxEvents
    /\ \E id \in TargetIds, x \in CommentInputs :
          Perform([op |-> "add_issue_comment", id |-> id, actor |-> Agent, text |-> x])

add_comment ==
    /\ Len(events) < MaxEvents
    /\ \E id \in TargetIds, x \in CommentInputs :
          Perform([op |-> "add_comment", id |-> id, actor |-> Agent, text |-> x])

get_dirty_issues == Perform([op |-> "get_dirty_issues"])

clear_dirty_issues == Perform([op |-> "clear_dirty_issues"])

clear_dirty_issues_by_id ==
    \E ids \in IdLists : Perform([op |-> "clear_dirty_issues_by_id", ids |-> ids])

Next ==
    \/ create_issue
    \/ update_issue
    \/ close_issue
    \/ add_dependency
    \/ remove_dependency
    \/ add_label
    \/ remove_label
    \/ add_issue_comment
    \/ add_comment
    \/ get_dirty_issues
    \/ clear_dirty_issues
    \/ clear_dirty_issues_by_id

Spec == Init /\ [][Next]_vars

\* The same store when every caller validates an issue before it creates it
NextValidated ==
    \/ create_issue_validated
    \/ update_issue
    \/ close_issue
    \/ add_dependency
    \/ remove_dependency
    \/ add_label
    \/ remove_label
    \/ add_issue_comment
    \/ add_comment
    \/ get_dirty_issues
    \/ clear_dirty_issues
    \/ clear_dirty_issues_by_id

SpecValidated == Init /\ [][NextValidated]_vars

(***************************************************************************)
(* Reading the store                                                       *)
(***************************************************************************)
\* SELECT issue_id FROM dirty_issues ORDER BY marked_at
DirtyList(db) == db.dirty_issues

\* the enum value whose as_str() is the column text
FromText(domain, text) == CHOOSE v \in domain : as_str(v) = text

\* the substantive fields of a stored row as an Issue (sqlite.rs:139-164)
RowIssue(id, row) ==
    [row EXCEPT !.status = FromText(Status, row.status),
                !.issue_type = FromText(IssueType, row.issue_type)]

\* the issue id a mutating call is about
AffectedId(c) ==
    CASE c.op = "create_issue" -> c.issue.id
      [] c.op = "add_dependency" -> c.dep.issue_id
      [] c.op = "remove_dependency" -> c.issue_id
      [] OTHER -> c.id

DirtyingOps ==
    {"create_issue", "update_issue", "close_issue", "add_dependency",
     "remove_dependency", "add_label", "remove_label", "add_comment",
     "add_issue_comment"}

WriteOps == DirtyingOps \ {"add_comment"}

(***************************************************************************)
(* C1: immediately after a successful create_issue, update_issue,          *)
(* close_issue, add_dependency, remove_dependency, add_label,              *)
(* remove_label, add_comment or add_issue_comment on issue X, X is in the  *)
(* list get_dirty_issues returns (for a dependency, X is its issue_id).    *)
(***************************************************************************)
C1_MutationMarksDirty ==
    (last.ok /\ last.call.op \in DirtyingOps)
        => AffectedId(last.call) \in Range(DirtyList(DB))

\* a mutation of an issue whose dirty mark had been cleared has just returned Ok
C1_Witness ==
    /\ last.ok
    /\ last.call.op = "close_issue"
    /\ Len(events) = 2
    /\ events[1].event_type = "created"
    /\ DirtyList(DB) = <<"bd-1">>
    /\ IsSome(issues["bd-1"])

(***************************************************************************)
(* C2: every write path is atomic: when create_issue, update_issue,        *)
(* close_issue, add_dependency, remove_dependency, add_label, remove_label *)
(* or add_issue_comment returns an error, none of its row changes, events  *)
(* or dirty marks is in the store afterwards.                              *)
(***************************************************************************)
C2_WritePathAtomic ==
    [][(last'.call.op \in WriteOps /\ ~last'.ok) => DB' = DB]_vars

(***************************************************************************)
(* C3: when issues are created with values that pass validate, every       *)
(* stored issue has closed_at set if and only if its status is closed,     *)
(* after any sequence of create_issue, update_issue and close_issue.       *)
(***************************************************************************)
C3_ClosedAtIffClosed ==
    \A id \in IssueIds :
        IsSome(issues[id]) =>
            (IsSome(Unwrap(issues[id]).closed_at)
                <=> Unwrap(issues[id]).status = as_str("closed"))

(***************************************************************************)
(* C4: after a successful create_issue, update_issue or close_issue the    *)
(* content_hash stored with the issue is compute_content_hash of the       *)
(* issue's stored substantive fields.                                      *)
(***************************************************************************)
C4_StoredHashIsCurrent ==
    (last.ok /\ last.call.op \in {"create_issue", "update_issue", "close_issue"})
        => LET id == AffectedId(last.call)
           IN  IsSome(issues[id]) =>
                 Unwrap(issues[id]).content_hash
                    = Some(compute_content_hash(RowIssue(id, Unwrap(issues[id]))))

(***************************************************************************)
(* C7: invalid input is rejected before any store mutation: create_issue   *)
(* with an issue validate rejects, and update_issue with values that make  *)
(* the stored issue one validate rejects, return an error and leave the    *)
(* store unchanged.                                                        *)
(***************************************************************************)
\* the row after an update map's entries are set, when all name columns
RECURSIVE ApplyUpdates(_, _, _)
ApplyUpdates(row, updates, k) ==
    IF k > Len(updates) THEN row
    ELSE ApplyUpdates([row EXCEPT ![updates[k].key] =
                                ColumnValue(updates[k].key, updates[k].value)],
                      updates, k + 1)

\* the call would leave the store holding an issue that validate rejects
MakesInvalid(db, c) ==
    CASE c.op = "create_issue" -> ~validate(c.issue)
      [] c.op = "update_issue" ->
            /\ IsSome(db.issues[c.id])
            /\ validate(RowIssue(c.id, Unwrap(db.issues[c.id])))
            /\ \A k \in 1..Len(c.updates) : c.updates[k].key \in IssueColumns
            /\ ~validate(RowIssue(c.id, ApplyUpdates(Unwrap(db.issues[c.id]),
                                                     c.updates, 1)))
      [] OTHER -> FALSE

C7_InvalidInputRejected ==
    [][MakesInvalid(DB, last'.call) => (~last'.ok /\ DB' = DB)]_vars

(***************************************************************************)
(* compute_content_hash on its own: two issues that start equal, are       *)
(* changed one field at a time, and are then hashed.                       *)
(***************************************************************************)
\* the largest number of field changes made to the two issues together
MaxEdits == 2

\* the fields compute_content_hash reads (types.rs:65-86)
SubstantiveFields ==
    {"title", "description", "design", "acceptance_criteria", "notes", "status",
     "priority", "issue_type", "assignee", "external_ref"}

\* the other fields of struct Issue (types.rs:10-51)
OtherFields ==
    {"id", "content_hash", "estimated_minutes", "created_at", "updated_at",
     "closed_at", "compaction_level", "compacted_at", "compacted_at_commit",
     "original_size", "source_repo", "labels", "dependencies", "comments"}

\* the values a field is changed to
FieldValues(f) ==
    CASE f = "title" -> {Empty, TextA, TextB}
      [] f \in {"description", "design", "acceptance_criteria", "notes", "assignee",
                "source_repo"} -> {Empty, TextA}
      [] f = "status" -> Status
      [] f = "priority" -> {-1, 0, 2, 4, 10}
      [] f = "issue_type" -> IssueType
      [] f = "external_ref" -> {None, Some(Empty), Some(TextA)}
      [] f = "id" -> IssueIds
      [] f = "content_hash" -> {None, Some(Sha256(Empty))}
      [] f = "estimated_minutes" -> {None, Some(5)}
      [] f \in {"created_at", "updated_at"} -> {"t0", "t1"}
      [] f \in {"closed_at", "compacted_at"} -> {None, Some("t1")}
      [] f = "compacted_at_commit" -> {None, Some(TextA)}
      [] f \in {"compaction_level", "original_size"} -> {0, 1}
      [] f = "labels" -> {<<>>, <<TextA>>}
      [] f = "dependencies" ->
            {<<>>, <<[issue_id |-> "bd-1", depends_on_id |-> "bd-2",
                      dep_type |-> "blocks", created_at |-> "t0",
                      created_by |-> Agent]>>}
      [] f = "comments" ->
            {<<>>, <<[id |-> 1, issue_id |-> "bd-1", author |-> Agent,
                      text |-> TextA, created_at |-> "t0"]>>}

HashInit ==
    /\ StoreInit
    /\ ThreadsIdle
    /\ \E base \in {NewIssue("bd-1"),
                    [NewIssue("bd-1") EXCEPT !.external_ref = Some(TextA)]} :
          issueA = base /\ issueB = base
    /\ hashA = None
    /\ hashB = None
    /\ edits = 0
    /\ ValidateIdle

\* one field of the first issue is changed
EditA ==
    /\ edits < MaxEdits
    /\ hashA = None
    /\ \E f \in SubstantiveFields \cup OtherFields : \E v \in FieldValues(f) :
          /\ issueA[f] # v
          /\ issueA' = [issueA EXCEPT ![f] = v]
    /\ edits' = edits + 1
    /\ UNCHANGED <<issueB, hashA, hashB, candidate, verdict, storeVars, last, threadVars>>

\* one field of the second issue is changed
EditB ==
    /\ edits < MaxEdits
    /\ hashA = None
    /\ \E f \in SubstantiveFields \cup OtherFields : \E v \in FieldValues(f) :
          /\ issueB[f] # v
          /\ issueB' = [issueB EXCEPT ![f] = v]
    /\ edits' = edits + 1
    /\ UNCHANGED <<issueA, hashA, hashB, candidate, verdict, storeVars, last, threadVars>>

\* both issues are hashed
ComputeHashes ==
    /\ hashA = None
    /\ hashA' = Some(compute_content_hash(issueA))
    /\ hashB' = Some(compute_content_hash(issueB))
    /\ UNCHANGED <<issueA, issueB, edits, candidate, verdict, storeVars, last, threadVars>>

HashNext == EditA \/ EditB \/ ComputeHashes

SpecHash == HashInit /\ [][HashNext]_vars

SameSubstantive(a, b) == \A f \in SubstantiveFields : a[f] = b[f]

(***************************************************************************)
(* C5: compute_content_hash depends on the substantive fields only: two    *)
(* issues that agree on title, description, design, acceptance_criteria,   *)
(* notes, status, priority, issue_type, assignee and external_ref get the  *)
(* same hash, whatever their other fields are.                             *)
(***************************************************************************)
C5_HashIgnoresOtherFields ==
    (IsSome(hashA) /\ IsSome(hashB) /\ SameSubstantive(issueA, issueB))
        => hashA = hashB

\* two hashed issues with the same content, different ids and different times
C5_Witness ==
    /\ IsSome(hashA)
    /\ IsSome(hashB)
    /\ SameSubstantive(issueA, issueB)
    /\ issueA.id # issueB.id
    /\ issueA.created_at # issueB.created_at

(***************************************************************************)
(* C6: two issues that differ in a substantive field (an absent            *)
(* external_ref against a present one included) feed different bytes to    *)
(* SHA-256, so their hashes differ.                                        *)
(***************************************************************************)
C6_HashSeparatesContent ==
    (IsSome(hashA) /\ IsSome(hashB) /\ ~SameSubstantive(issueA, issueB))
        => hashA # hashB

(***************************************************************************)
(* Threads sharing one SqliteStorage handle. A Storage call locks          *)
(* self.conn (a std::sync::Mutex), runs its statements one at a time and   *)
(* drops the guard when it returns; a call that is implemented by other    *)
(* Storage calls makes them one after the other.                           *)
(***************************************************************************)
\* a lock() that does not wait for the mutex to be free
LockFreeAlways == TRUE

\* Mutex::lock returns only when no thread holds the mutex
LockFree == owner = None

\* events the calls already started will still record, at most
RECURSIVE Pending(_)
Pending(ts) ==
    IF ts = {} THEN 0
    ELSE LET t == CHOOSE x \in ts : TRUE
         IN  Len(SelectSeq(queue[t], LAMBDA c : c.op \in WriteOps)) + Pending(ts \ {t})

\* room for n more events within MaxEvents
Room(n) == Len(events) + Pending(Threads) + n <= MaxEvents

\* the thread starts call c
Invoke(t, c) ==
    /\ pc[t] = "idle"
    /\ queue' = [queue EXCEPT ![t] = Calls(c)]
    /\ pc' = [pc EXCEPT ![t] = "acquire"]
    /\ UNCHANGED <<storeVars, last, owner, poisoned, todo, dirty_read, child_read,
                   returned, hashVars>>

\* an issue with an external reference, as another thread's lookup needs it
RefIssue(id) == Hashed([NewIssue(id) EXCEPT !.external_ref = Some(TextA)])

call_create_issue(t) ==
    /\ Room(1)
    /\ Invoke(t, [op |-> "create_issue", issue |-> RefIssue("bd-1"), actor |-> Agent])

call_create_issues(t) ==
    /\ Room(2)
    /\ Invoke(t, [op |-> "create_issues",
                  issues |-> <<RefIssue("bd-1"), NewIssue("bd-2")>>, actor |-> Agent])

call_update_issue(t) ==
    /\ Room(1)
    /\ Invoke(t, [op |-> "update_issue", id |-> "bd-1",
                  updates |-> <<[key |-> "title", value |-> TextB]>>, actor |-> Agent])

call_close_issue(t) ==
    /\ Room(1)
    /\ Invoke(t, [op |-> "close_issue", id |-> "bd-1", reason |-> TextA, actor |-> Agent])

call_add_comment(t) ==
    /\ Room(1)
    /\ Invoke(t, [op |-> "add_comment", id |-> "bd-1", actor |-> Agent, text |-> TextB])

call_get_issue(t) == Invoke(t, [op |-> "get_issue", id |-> "bd-1"])

call_get_issue_by_external_ref(t) ==
    Invoke(t, [op |-> "get_issue_by_external_ref", ref |-> TextA])

call_get_dirty_issues(t) == Invoke(t, [op |-> "get_dirty_issues"])

\* the thread clears the dirty marks of the ids its get_dirty_issues returned
call_clear_dirty_issues_by_id(t) ==
    /\ IsSome(dirty_read[t])
    /\ Invoke(t, [op |-> "clear_dirty_issues_by_id", ids |-> Unwrap(dirty_read[t])])

call_clear_dirty_issues(t) ==
    /\ IsSome(dirty_read[t])
    /\ Invoke(t, [op |-> "clear_dirty_issues"])

call_set_jsonl_file_hash(t) ==
    /\ metadata["jsonl_file_hash"] = None
    /\ Invoke(t, [op |-> "set_jsonl_file_hash", value |-> TextA])

call_get_jsonl_file_hash(t) ==
    /\ metadata["jsonl_file_hash"] # None
    /\ Invoke(t, [op |-> "get_jsonl_file_hash"])

\* self.conn.lock().unwrap() at the start of a locking call: the lock is
\* taken when free; on a poisoned mutex lock() returns Err and unwrap panics
Lock(t) ==
    /\ pc[t] = "acquire"
    /\ LockFree
    /\ IF poisoned
       THEN /\ pc' = [pc EXCEPT ![t] = "panicked"]
            /\ queue' = [queue EXCEPT ![t] = <<>>]
            /\ UNCHANGED <<owner, todo>>
       ELSE /\ owner' = Some(t)
            /\ todo' = [todo EXCEPT ![t] = Stmts(Head(queue[t]))]
            /\ pc' = [pc EXCEPT ![t] = "locked"]
            /\ UNCHANGED queue
    /\ UNCHANGED <<storeVars, last, poisoned, dirty_read, child_read, returned, hashVars>>

\* the next statement of the call, under the lock
Step(t) ==
    /\ pc[t] = "locked"
    /\ todo[t] # <<>>
    /\ LET s == IF Head(todo[t]).k = "upsert_child_counter"
                THEN SUpsertChildCounter(Head(todo[t]).parent_id,
                                         NextChild(child_read[t]))
                ELSE Head(todo[t])
           r == Exec(DB, s)
       IN  /\ Commit(r.db)
           /\ child_read' = IF s.k = "select_child_counter"
                            THEN [child_read EXCEPT
                                    ![t] = SelectChildCounter(DB, s.parent_id)]
                            ELSE child_read
           /\ dirty_read' = IF s.k = "select_dirty"
                            THEN [dirty_read EXCEPT ![t] = Some(DirtyList(r.db))]
                            ELSE dirty_read
           /\ CASE r.out = "ok" ->
                     /\ todo' = [todo EXCEPT ![t] = Tail(@)]
                     /\ UNCHANGED <<pc, queue, owner, poisoned>>
                [] r.out = "err" ->
                     \* `?` returns Err from the call and from its caller; the
                     \* guard is dropped
                     /\ todo' = [todo EXCEPT ![t] = <<>>]
                     /\ queue' = [queue EXCEPT ![t] = <<>>]
                     /\ pc' = [pc EXCEPT ![t] = "idle"]
                     /\ owner' = None
                     /\ UNCHANGED poisoned
                [] r.out = "panic" ->
                     \* unwinding drops the guard and poisons the mutex
                     /\ todo' = [todo EXCEPT ![t] = <<>>]
                     /\ queue' = [queue EXCEPT ![t] = <<>>]
                     /\ pc' = [pc EXCEPT ![t] = "panicked"]
                     /\ owner' = None
                     /\ poisoned' = TRUE
                [] r.out = "relock" ->
                     \* get_issue_by_external_ref calls self.get_issue with its
                     \* guard alive (sqlite.rs:173, 184)
                     /\ todo' = [todo EXCEPT ![t] = <<>>]
                     /\ pc' = [pc EXCEPT ![t] = "relock"]
                     /\ UNCHANGED <<queue, owner, poisoned>>
    /\ UNCHANGED <<last, returned, hashVars>>

\* the locking call returns Ok: its guard is dropped, and the call that made
\* it goes on to its next call or returns
Unlock(t) ==
    /\ pc[t] = "locked"
    /\ todo[t] = <<>>
    /\ owner' = None
    /\ queue' = [queue EXCEPT ![t] = Tail(@)]
    /\ pc' = [pc EXCEPT ![t] = IF Tail(queue[t]) = <<>> THEN "idle" ELSE "acquire"]
    /\ dirty_read' = IF Head(queue[t]).op \in {"clear_dirty_issues",
                                               "clear_dirty_issues_by_id"}
                     THEN [dirty_read EXCEPT ![t] = None]
                     ELSE dirty_read
    /\ returned' = IF Head(queue[t]).op = "get_next_child_id"
                   THEN Append(returned, ChildId(Head(queue[t]).parent_id,
                                                 NextChild(child_read[t])))
                   ELSE returned
    /\ UNCHANGED <<storeVars, last, poisoned, todo, child_read, hashVars>>

\* get_issue's self.conn.lock() in the thread that holds the mutex: what
\* std::sync::Mutex does then is unspecified, but lock() does not return:
\* the thread blocks forever, or it panics
Relock(t) ==
    /\ pc[t] = "relock"
    /\ \/ /\ pc' = [pc EXCEPT ![t] = "deadlocked"]
          /\ UNCHANGED <<owner, poisoned, queue>>
       \/ /\ pc' = [pc EXCEPT ![t] = "panicked"]
          /\ queue' = [queue EXCEPT ![t] = <<>>]
          /\ owner' = None
          /\ poisoned' = TRUE
    /\ UNCHANGED <<storeVars, last, todo, dirty_read, child_read, returned, hashVars>>

ConcNext ==
    \E t \in Threads :
        \/ call_create_issue(t)
        \/ call_create_issues(t)
        \/ call_update_issue(t)
        \/ call_close_issue(t)
        \/ call_add_comment(t)
        \/ call_get_issue(t)
        \/ call_get_issue_by_external_ref(t)
        \/ call_get_dirty_issues(t)
        \/ call_clear_dirty_issues_by_id(t)
        \/ call_clear_dirty_issues(t)
        \/ call_set_jsonl_file_hash(t)
        \/ call_get_jsonl_file_hash(t)
        \/ Lock(t)
        \/ Step(t)
        \/ Unlock(t)
        \/ Relock(t)

SpecConc == Init /\ [][ConcNext]_vars

\* threads inside a critical section on self.conn
Holding(t) == pc[t] \in {"locked", "relock", "deadlocked"}

(***************************************************************************)
(* C8: no storage operation blocks forever on the handle's own mutex: a    *)
(* thread never asks for the store lock while it is itself holding it, so  *)
(* every call can get the lock, return Ok or Err and release it.           *)
(***************************************************************************)
C8_NeverLocksHeldMutex ==
    \A t \in Threads : pc[t] \in {"acquire", "relock", "deadlocked"} => owner # Some(t)

(***************************************************************************)
(* C9: at most one thread at a time is inside a critical section on the    *)
(* shared connection, the store changes only by a statement of the thread  *)
(* that holds the lock, and the lock holder keeps the lock from the first  *)
(* statement of a mutating operation to its last (or to the failure that   *)
(* ends it), so no other thread's statement falls in between.              *)
(***************************************************************************)
C9_CriticalSections ==
    [][/\ \A t, u \in Threads : (Holding(t) /\ Holding(u))' => t = u
       /\ \A t \in Threads : Holding(t)' => owner' = Some(t)
       /\ DB' # DB =>
             \E t \in Threads :
                 /\ owner = Some(t) /\ pc[t] = "locked" /\ todo[t] # <<>>
                 /\ \A u \in Threads \ {t} : ~Holding(u) /\ todo'[u] = todo[u]
       /\ \A t \in Threads :
             (pc[t] = "locked" /\ todo[t] # <<>> /\ pc'[t] = "locked") =>
                 /\ owner' = Some(t) /\ queue'[t] = queue[t]
                 /\ todo'[t] = IF DB' # DB THEN Tail(todo[t]) ELSE todo'[t]
                 /\ todo'[t] \in {todo[t], Tail(todo[t])}]_vars

\* one thread has inserted the row but not yet recorded the event, and the
\* other thread is waiting for the lock with an update of the same issue
C9_Witness ==
    \E t, u \in Threads :
        /\ t # u
        /\ pc[t] = "locked" /\ owner = Some(t)
        /\ Head(queue[t]).op = "create_issue" /\ Len(todo[t]) = 2
        /\ IsSome(issues["bd-1"]) /\ events = <<>>
        /\ pc[u] = "acquire" /\ Head(queue[u]).op = "update_issue"

(***************************************************************************)
(* C10: between a thread's get_dirty_issues and the return of its          *)
(* clear_dirty_issues or clear_dirty_issues_by_id, no other thread         *)
(* changes the store.                                                      *)
(***************************************************************************)
C10_ExportPassExcludesMutation ==
    [][\A t \in Threads :
          (IsSome(dirty_read[t]) /\ <<issues, dependencies, labels, comments, events>>'
                                     # <<issues, dependencies, labels, comments, events>>)
              => owner = Some(t)]_vars

(***************************************************************************)
(* One caller working on a small project: an epic bd-1 and a task bd-2,    *)
(* edges between them, labels and comments, the graph queries, deletion    *)
(* and the bookkeeping calls.                                              *)
(***************************************************************************)
\* mutating calls of this specification are made while the events table has
\* fewer rows than this
MaxWorkEvents == 3

\* an open epic bd-1; a task bd-2, open or closed
WorkIssues ==
    {Hashed([NewIssue("bd-1") EXCEPT !.issue_type = "epic"]),
     NewIssue("bd-2"),
     Hashed([NewIssue("bd-2") EXCEPT !.status = "closed", !.closed_at = Some("t0")])}

do_create_issue ==
    /\ Len(events) < MaxWorkEvents
    /\ \E issue \in WorkIssues :
          Perform([op |-> "create_issue", issue |-> issue, actor |-> Agent])

do_close_issue ==
    /\ Len(events) < MaxWorkEvents
    /\ \E id \in IssueIds :
          Perform([op |-> "close_issue", id |-> id, reason |-> TextA, actor |-> Agent])

\* the edges passed to add_dependency: the task depends on the epic, as
\* blocked by it or as its child; and the epic depends on itself
WorkDeps ==
    {[issue_id |-> "bd-2", depends_on_id |-> "bd-1", dep_type |-> "blocks",
      created_at |-> "t0", created_by |-> Agent],
     [issue_id |-> "bd-2", depends_on_id |-> "bd-1", dep_type |-> "parent-child",
      created_at |-> "t0", created_by |-> Agent],
     [issue_id |-> "bd-1", depends_on_id |-> "bd-1", dep_type |-> "blocks",
      created_at |-> "t0", created_by |-> Agent]}

do_add_dependency ==
    /\ Len(events) < MaxWorkEvents
    /\ \E dep \in WorkDeps :
          Perform([op |-> "add_dependency", dep |-> dep, actor |-> Agent])

\* WorkFilter::default() (types.rs:408-420)
DefaultWorkFilter ==
    [status |-> "open", priority |-> None, assignee |-> None, labels |-> <<>>,
     labels_any |-> <<>>, limit |-> 0]

\* get_ready_work: Ok(Vec::new()) (sqlite.rs:342-345)
get_ready_work(db, filter) == <<>>

\* detect_cycles: Ok(Vec::new()) (sqlite.rs:295-298)
detect_cycles(db) == <<>>

\* get_epics_eligible_for_closure: Ok(Vec::new()) (sqlite.rs:352-355)
get_epics_eligible_for_closure(db) == <<>>

\* a call that reads the store and returns Ok(result)
Answer(c, result) ==
    /\ last' = [call |-> c, ok |-> TRUE, result |-> result]
    /\ UNCHANGED <<storeVars, threadVars, hashVars>>

do_get_ready_work ==
    Answer([op |-> "get_ready_work", filter |-> DefaultWorkFilter],
           get_ready_work(DB, DefaultWorkFilter))

do_detect_cycles == Answer([op |-> "detect_cycles"], detect_cycles(DB))

do_get_epics_eligible_for_closure ==
    Answer([op |-> "get_epics_eligible_for_closure"], get_epics_eligible_for_closure(DB))

WorkNext ==
    \/ do_create_issue
    \/ do_close_issue
    \/ do_add_dependency
    \/ do_get_ready_work
    \/ do_detect_cycles
    \/ do_get_epics_eligible_for_closure
    \/ get_dirty_issues
    \/ clear_dirty_issues

SpecWork == Init /\ [][WorkNext]_vars

\* how many times x occurs in the sequence s
Count(s, x) == Cardinality({k \in 1..Len(s) : s[k] = x})

\* a mutation of an issue that was dirty already has just returned Ok
Remarked == 
    /\ last'.ok
    /\ last'.call.op \in DirtyingOps
    /\ AffectedId(last'.call) \in Range(DirtyList(DB))

(***************************************************************************)
(* C11 as stated: when issue X is already dirty, a further mutation of X   *)
(* leaves the result of get_dirty_issues unchanged: the same issue ids in  *)
(* the same order.                                                         *)
(***************************************************************************)
C11_RemarkKeepsList == [][Remarked => DirtyList(DB)' = DirtyList(DB)]_vars

(***************************************************************************)
(* C11 amended: when issue X is already dirty, a further mutation of X     *)
(* leaves get_dirty_issues returning the same set of issue ids, each       *)
(* listed exactly once; the order of the list may change.                  *)
(***************************************************************************)
C11_RemarkKeepsSet ==
    [][Remarked =>
         /\ Range(DirtyList(DB)') = Range(DirtyList(DB))
         /\ \A id \in IssueIds : Count(DirtyList(DB)', id) = Count(DirtyList(DB), id)
         /\ Count(DirtyList(DB)', AffectedId(last'.call)) = 1]_vars

\* bd-1 and then bd-2 were marked, and a further mutation of bd-1 returned Ok
C11_Witness ==
    /\ last.ok
    /\ last.call.op = "close_issue"
    /\ last.call.id = "bd-1"
    /\ Len(events) = 3
    /\ events[1].issue_id = "bd-1"
    /\ events[2].issue_id = "bd-2"
    /\ DirtyList(DB) = <<"bd-2", "bd-1">>

(***************************************************************************)
(* The derived views as the specification defines them                     *)
(***************************************************************************)
\* the stored issue ids
Stored(db) == {id \in IssueIds : IsSome(db.issues[id])}

StatusOf(db, id) == Unwrap(db.issues[id]).status

\* ready: open, and every blocks edge of it points to a missing or closed issue
ReadyIds(db) ==
    {id \in Stored(db) :
        /\ StatusOf(db, id) = as_str("open")
        /\ \A d \in db.dependencies :
              (d.issue_id = id /\ d.dep_type = "blocks") =>
                  \/ d.depends_on_id \notin Stored(db)
                  \/ StatusOf(db, d.depends_on_id) = as_str("closed")}

\* the edges that take part in cycle detection
GraphEdges(db) ==
    {<<d.issue_id, d.depends_on_id>> :
        d \in {e \in db.dependencies : e.dep_type \in {"blocks", "parent-child"}}}

\* some walk along the edges returns to the issue it starts from
HasCycle(db) ==
    \E n \in 2..(Cardinality(IssueIds) + 1) : \E w \in [1..n -> IssueIds] :
        /\ w[1] = w[n]
        /\ \A k \in 1..(n - 1) : <<w[k], w[k + 1]>> \in GraphEdges(db)

\* the stored issues with a parent-child edge to epic
Children(db, epic) ==
    {c \in Stored(db) :
        \E d \in db.dependencies :
            d.issue_id = c /\ d.depends_on_id = epic /\ d.dep_type = "parent-child"}

\* the stored epics with at least one child and every child closed
EligibleEpics(db) ==
    {e \in Stored(db) :
        /\ Unwrap(db.issues[e]).issue_type = as_str("epic")
        /\ Children(db, e) # {}
        /\ \A c \in Children(db, e) : StatusOf(db, c) = as_str("closed")}

(***************************************************************************)
(* C12: get_ready_work with the default filter returns exactly the ready   *)
(* issues: a stored issue is in the result if and only if it is open and   *)
(* each of its blocks edges points to a missing or closed issue.           *)
(***************************************************************************)
C12_ReadyWorkExact ==
    (last.call.op = "get_ready_work" /\ last.ok)
        => {last.result[k].id : k \in 1..Len(last.result)} = ReadyIds(DB)

(***************************************************************************)
(* C13: detect_cycles returns the empty list if and only if the blocks and *)
(* parent-child edges form no cycle; a self-loop counts as a cycle.        *)
(***************************************************************************)
C13_CyclesReported ==
    (last.call.op = "detect_cycles" /\ last.ok)
        => (last.result = <<>> <=> ~HasCycle(DB))

(***************************************************************************)
(* C14: get_epics_eligible_for_closure reports an epic as                  *)
(* eligible_for_close if and only if it has at least one child and every   *)
(* child is closed.                                                        *)
(***************************************************************************)
C14_EpicEligibility ==
    (last.call.op = "get_epics_eligible_for_closure" /\ last.ok)
        => {last.result[k].epic.id :
               k \in {j \in 1..Len(last.result) : last.result[j].eligible_for_close}}
             = EligibleEpics(DB)

(***************************************************************************)
(* One caller keeping a store in sync with the log: a task bd-2 with its   *)
(* edge, label and comment, deletion, the export bookkeeping, and the      *)
(* export and import commands.                                             *)
(***************************************************************************)
\* mutating calls of this specification are made while the events table has
\* fewer rows than this
MaxAdminEvents == 2

adm_create_issue ==
    /\ Len(events) < MaxAdminEvents
    /\ Perform([op |-> "create_issue", issue |-> NewIssue("bd-2"), actor |-> Agent])

adm_add_dependency ==
    /\ Len(events) < MaxAdminEvents
    /\ Perform([op |-> "add_dependency", actor |-> Agent,
                dep |-> [issue_id |-> "bd-1", depends_on_id |-> "bd-2",
                         dep_type |-> "blocks", created_at |-> "t0",
                         created_by |-> Agent]])

adm_add_label ==
    /\ Len(events) < MaxAdminEvents
    /\ Perform([op |-> "add_label", id |-> "bd-2", label |-> TextA, actor |-> Agent])

adm_add_issue_comment ==
    /\ Len(events) < MaxAdminEvents
    /\ Perform([op |-> "add_issue_comment", id |-> "bd-2", actor |-> Agent,
                text |-> TextB])

adm_delete_issue == Perform([op |-> "delete_issue", id |-> "bd-2"])

\* the hashes recorded for bd-2 at an export: of the task as created, and of
\* the task with another title
ExportedHashes ==
    {compute_content_hash(NewIssue("bd-2")),
     compute_content_hash([NewIssue("bd-2") EXCEPT !.title = TextB])}

adm_set_export_hash ==
    \E h \in ExportedHashes :
        Perform([op |-> "set_export_hash", id |-> "bd-2", hash |-> h])

adm_clear_all_export_hashes == Perform([op |-> "clear_all_export_hashes"])

\* the records of an import file: bd-2 with a description of its own
ImportFiles == {<<Hashed([NewIssue("bd-2") EXCEPT !.description = TextB])>>}

\* main for Commands::Export and Commands::Import: println!, then Ok(())
\* (main.rs:154-163). Nothing is read from or written to the store or the
\* log, no conflict is reported and the process exits with code 0.
RunCommand(c) == [written |-> <<>>, conflicts |-> {}, exit_code |-> 0]

Command(c) ==
    /\ last' = [call |-> c, ok |-> RunCommand(c).exit_code = 0, out |-> RunCommand(c)]
    /\ UNCHANGED <<storeVars, threadVars, hashVars>>

adm_export == Command([op |-> "export", output |-> None])

adm_import == \E f \in ImportFiles : Command([op |-> "import", records |-> f])

AdminNext ==
    \/ adm_create_issue
    \/ adm_add_dependency
    \/ adm_add_label
    \/ adm_add_issue_comment
    \/ adm_delete_issue
    \/ adm_set_export_hash
    \/ adm_clear_all_export_hashes
    \/ adm_export
    \/ adm_import
    \/ clear_dirty_issues

SpecAdmin == Init /\ [][AdminNext]_vars

\* the content hash of the issue stored under id, from its stored fields
CurrentHash(db, id) == compute_content_hash(RowIssue(id, Unwrap(db.issues[id])))

(***************************************************************************)
(* C15: export is idempotent: after an export the dirty set is empty, an   *)
(* export that follows an export with no mutation in between writes no     *)
(* record to the log, and a dirty issue whose content hash equals its      *)
(* recorded export hash is not written (its dirty mark is cleared).        *)
(***************************************************************************)
C15_ExportIdempotent ==
    [][(last'.call.op = "export" /\ last'.ok) =>
         /\ DirtyList(DB)' = <<>>
         /\ (last.call.op = "export" /\ last.ok) => last'.out.written = <<>>
         /\ \A id \in Range(DirtyList(DB)) :
               (IsSome(issues[id]) /\ export_hashes[id] = Some(CurrentHash(DB, id)))
                   => \A k \in 1..Len(last'.out.written) : last'.out.written[k].id # id]_vars

\* the incoming record, the recorded export hash and the stored issue are
\* three different contents
ThreeWay(db, rec) ==
    /\ IsSome(db.issues[rec.id])
    /\ IsSome(db.export_hashes[rec.id])
    /\ rec.content_hash # db.export_hashes[rec.id]
    /\ Some(CurrentHash(db, rec.id)) # db.export_hashes[rec.id]
    /\ Some(CurrentHash(db, rec.id)) # rec.content_hash

(***************************************************************************)
(* C16: import never silently overwrites a three-way divergence: for an    *)
(* incoming record whose hash differs from the recorded export hash of its *)
(* id, while the stored issue's current hash differs from both, import     *)
(* reports a conflict for the issue, leaves the stored issue unchanged and *)
(* the command exits with a non-zero code.                                 *)
(***************************************************************************)
C16_ImportReportsConflict ==
    [][last'.call.op = "import" =>
         \A k \in 1..Len(last'.call.records) :
            LET rec == last'.call.records[k]
            IN  ThreeWay(DB, rec) =>
                  /\ rec.id \in last'.out.conflicts
                  /\ issues'[rec.id] = issues[rec.id]
                  /\ last'.out.exit_code # 0]_vars

\* the call names an issue id that is not stored, or an edge that is not
UnknownTarget(db, c) ==
    CASE c.op \in {"update_issue", "close_issue"} -> db.issues[c.id] = None
      [] c.op = "remove_dependency" ->
            \A d \in db.dependencies :
                ~(d.issue_id = c.issue_id /\ d.depends_on_id = c.depends_on_id)
      [] OTHER -> FALSE

(***************************************************************************)
(* C17: update_issue and close_issue with an id that no stored issue has,  *)
(* and remove_dependency of an edge that is not stored, return an error.   *)
(***************************************************************************)
C17_UnknownTargetIsError == [][UnknownTarget(DB, last'.call) => ~last'.ok]_vars

\* the rows of the issues, dependencies, labels and comments tables
Content(db) == <<db.issues, db.dependencies, db.labels, db.comments>>

(***************************************************************************)
(* C18: a successful create_issue, update_issue, close_issue,              *)
(* add_dependency, remove_dependency, add_label, remove_label or           *)
(* add_issue_comment that changes stored state appends exactly one event,  *)
(* for the affected issue; one that changes no stored state appends none.  *)
(***************************************************************************)
C18_OneEventPerChange ==
    [][(last'.call.op \in WriteOps /\ last'.ok) =>
         IF Content(DB)' # Content(DB)
         THEN /\ Len(events') = Len(events) + 1
              /\ SubSeq(events', 1, Len(events)) = events
              /\ events'[Len(events')].issue_id = AffectedId(last'.call)
         ELSE events' = events]_vars

(***************************************************************************)
(* C19: the event log is append-only: across every Storage operation,      *)
(* delete_issue, clear_dirty_issues and clear_all_export_hashes included,  *)
(* the log after the operation has the log before it as a prefix, with     *)
(* every recorded event unchanged.                                         *)
(***************************************************************************)
C19_EventsAppendOnly ==
    [][/\ Len(events') >= Len(events)
       /\ SubSeq(events', 1, Len(events)) = events]_vars

\* bd-2 was created, labelled and deleted, and both events are in the log
C19_Witness ==
    /\ last.ok
    /\ last.call.op = "delete_issue"
    /\ issues["bd-2"] = None
    /\ Len(events) = 2
    /\ events[1].issue_id = "bd-2" /\ events[1].event_type = "created"
    /\ events[2].issue_id = "bd-2" /\ events[2].event_type = "label_added"

(***************************************************************************)
(* C20: after delete_issue(id) succeeds, get_issue(id) is None and the     *)
(* store holds no dependency edge from or to id, no label of id and no     *)
(* comment of id.                                                          *)
(***************************************************************************)
C20_DeleteCascades ==
    (last.ok /\ last.call.op = "delete_issue") =>
        LET id == last.call.id
        IN  /\ Run(DB, [op |-> "get_issue", id |-> id]).ok
            /\ issues[id] = None
            /\ \A d \in dependencies : d.issue_id # id /\ d.depends_on_id # id
            /\ \A l \in labels : l[1] # id
            /\ \A k \in 1..Len(comments) : comments[k].issue_id # id

\* bd-2 was created, an edge to it was added, and bd-2 was deleted
C20_Witness ==
    /\ last.ok
    /\ last.call.op = "delete_issue"
    /\ Len(events) = 2
    /\ events[1].issue_id = "bd-2" /\ events[1].event_type = "created"
    /\ events[2].issue_id = "bd-1" /\ events[2].event_type = "dependency_added"
    /\ issues["bd-2"] = None
    /\ dependencies = {}

(***************************************************************************)
(* One caller using the queries, the labels, the dirty set and the export  *)
(* hashes of one handle. bd-1 is created; bd-2 never is. SpecSync has the  *)
(* queries, SpecExport the export-hash operations among all mutations.     *)
(***************************************************************************)
\* mutating calls are made while the events table has fewer rows than this
MaxSyncEvents == 2

\* StaleFilter as a caller fills it (types.rs:424-428)
DefaultStaleFilter == [days |-> 30, status |-> "open", limit |-> 0]

\* get_blocked_issues: Ok(Vec::new()) (sqlite.rs:347-350)
get_blocked_issues(db) == <<>>

\* get_stale_issues: Ok(Vec::new()) (sqlite.rs:357-360)
get_stale_issues(db, filter) == <<>>

\* get_dependency_tree: Ok(Vec::new()) (sqlite.rs:290-293)
get_dependency_tree(db, issue_id, max_depth, show_all_paths, reverse) == <<>>

\* get_dependency_counts: Ok(HashMap::new()), a map without keys
\* (sqlite.rs:285-288)
get_dependency_counts(db, issue_ids) == [i \in {} |-> 0]

\* the orders in which SELECT label FROM labels WHERE issue_id = ? may return
\* the rows of issue_id: each row once, in an order the statement leaves open
get_labels(db, issue_id) ==
    LET ls == {l[2] : l \in {x \in db.labels : x[1] = issue_id}}
    IN  {q \in UNION {[1..n -> ls] : n \in {Cardinality(ls)}} : Range(q) = ls}

\* what get_issue returns in Ok: None without a row, else the Issue built
\* from the row (sqlite.rs:139-164)
get_issue(db, id) ==
    IF db.issues[id] = None THEN None
    ELSE LET row == Unwrap(db.issues[id])
         IN  Some([f \in {"id", "labels", "dependencies", "comments"} \cup DOMAIN row |->
                     CASE f = "id" -> id
                       [] f \in {"labels", "dependencies", "comments"} -> <<>>
                       [] f = "status" -> Unwrap(from_json_str(Status, row.status))
                       [] f = "issue_type" ->
                            Unwrap(from_json_str(IssueType, row.issue_type))
                       [] OTHER -> row[f]])

\* SELECT content_hash FROM export_hashes WHERE issue_id = ?, .optional()
get_export_hash(db, issue_id) == db.export_hashes[issue_id]

\* A locking call by the one caller, from entry to return. With `result` in
\* Ok; a panic under the guard poisons the mutex, and every later
\* self.conn.lock().unwrap() panics.
Request(c, result) ==
    /\ ~poisoned
    /\ LET r == Run(DB, c)
       IN  /\ Commit(r.db)
           /\ last' = [call |-> c, ok |-> r.ok,
                       result |-> IF r.ok THEN Some(result) ELSE None]
           /\ poisoned' = (r.out = "panic")
    /\ UNCHANGED <<owner, pc, todo, queue, dirty_read, child_read, returned, hashVars>>

Unit == "()"

sync_create_issue ==
    /\ Len(events) < MaxSyncEvents
    /\ Request([op |-> "create_issue", issue |-> NewIssue("bd-1"), actor |-> Agent], Unit)

sync_update_issue ==
    /\ Len(events) < MaxSyncEvents
    /\ Request([op |-> "update_issue", id |-> "bd-1",
                updates |-> <<[key |-> "title", value |-> TextB]>>, actor |-> Agent],
               Unit)

sync_close_issue ==
    /\ Len(events) < MaxSyncEvents
    /\ Request([op |-> "close_issue", id |-> "bd-2", reason |-> TextA, actor |-> Agent],
               Unit)

sync_add_dependency ==
    /\ Len(events) < MaxSyncEvents
    /\ Request([op |-> "add_dependency", actor |-> Agent,
                dep |-> [issue_id |-> "bd-2", depends_on_id |-> "bd-1",
                         dep_type |-> "blocks", created_at |-> "t0",
                         created_by |-> Agent]], Unit)

sync_add_issue_comment ==
    /\ Len(events) < MaxSyncEvents
    /\ Request([op |-> "add_issue_comment", id |-> "bd-1", actor |-> Agent,
                text |-> TextB], Unit)

\* the labels put on bd-1
SyncLabels == {TextA, TextB}

sync_add_label ==
    /\ Len(events) < MaxSyncEvents
    /\ \E l \in SyncLabels :
          Request([op |-> "add_label", id |-> "bd-1", label |-> l, actor |-> Agent], Unit)

sync_remove_label ==
    /\ Len(events) < MaxSyncEvents
    /\ Request([op |-> "remove_label", id |-> "bd-1", label |-> TextA, actor |-> Agent],
               Unit)

\* the hashes recorded at an export of bd-1 and of bd-2
SyncHashes ==
    {<<"bd-1", compute_content_hash(NewIssue("bd-1"))>>,
     <<"bd-1", compute_content_hash([NewIssue("bd-1") EXCEPT !.title = TextB])>>,
     <<"bd-2", compute_content_hash(NewIssue("bd-2"))>>}

sync_set_export_hash ==
    \E x \in SyncHashes :
        Request([op |-> "set_export_hash", id |-> x[1], hash |-> x[2]], Unit)

sync_clear_all_export_hashes == Request([op |-> "clear_all_export_hashes"], Unit)

sync_clear_dirty_issues == Request([op |-> "clear_dirty_issues"], Unit)

sync_clear_dirty_issues_by_id ==
    \E ids \in IdLists : Request([op |-> "clear_dirty_issues_by_id", ids |-> ids], Unit)

sync_get_issue ==
    \E id \in IssueIds : Request([op |-> "get_issue", id |-> id], get_issue(DB, id))

sync_get_labels ==
    \E ls \in get_labels(DB, "bd-1") : Request([op |-> "get_labels", id |-> "bd-1"], ls)

sync_get_dirty_issues == Request([op |-> "get_dirty_issues"], DirtyList(DB))

sync_get_export_hash ==
    \E id \in IssueIds :
        Request([op |-> "get_export_hash", id |-> id], get_export_hash(DB, id))

do_get_blocked_issues == Answer([op |-> "get_blocked_issues"], get_blocked_issues(DB))

do_get_stale_issues ==
    Answer([op |-> "get_stale_issues", filter |-> DefaultStaleFilter],
           get_stale_issues(DB, DefaultStaleFilter))

do_get_dependency_tree ==
    Answer([op |-> "get_dependency_tree", id |-> "bd-1"],
           get_dependency_tree(DB, "bd-1", 50, FALSE, FALSE))

do_get_dependency_counts ==
    Answer([op |-> "get_dependency_counts", ids |-> <<"bd-1">>],
           get_dependency_counts(DB, <<"bd-1">>))

\* the queries, on a store with labels, dirty marks and export hashes
SyncNext ==
    \/ sync_create_issue
    \/ sync_close_issue
    \/ sync_add_label
    \/ sync_remove_label
    \/ sync_set_export_hash
    \/ sync_clear_dirty_issues
    \/ sync_clear_dirty_issues_by_id
    \/ sync_get_issue
    \/ sync_get_labels
    \/ sync_get_dirty_issues
    \/ sync_get_export_hash
    \/ do_get_ready_work
    \/ do_get_blocked_issues
    \/ do_get_epics_eligible_for_closure
    \/ do_get_stale_issues
    \/ do_detect_cycles
    \/ do_get_dependency_tree
    \/ do_get_dependency_counts

SpecSync == Init /\ [][SyncNext]_vars

\* the export-hash operations among the mutating calls and the dirty-set
\* operations
ExportNext ==
    \/ sync_create_issue
    \/ sync_update_issue
    \/ sync_close_issue
    \/ sync_add_dependency
    \/ sync_add_issue_comment
    \/ sync_add_label
    \/ sync_set_export_hash
    \/ sync_clear_all_export_hashes
    \/ sync_get_export_hash
    \/ sync_get_dirty_issues
    \/ sync_clear_dirty_issues
    \/ sync_clear_dirty_issues_by_id

SpecExport == Init /\ [][ExportNext]_vars

\* the queries of the Storage trait that only read
ReadOnlyOps ==
    {"get_ready_work", "get_blocked_issues", "get_epics_eligible_for_closure",
     "get_stale_issues", "detect_cycles", "get_dependency_tree",
     "get_dependency_counts", "get_issue", "get_labels", "get_dirty_issues",
     "get_export_hash"}

\* C21: a read-only query (get_ready_work, get_blocked_issues,
\* get_epics_eligible_for_closure, get_stale_issues, detect_cycles,
\* get_dependency_tree, get_dependency_counts, get_issue, get_labels,
\* get_dirty_issues, get_export_hash) leaves every stored issue, dependency,
\* label, event, dirty mark and export hash as it was.
C21_QueriesChangeNothing ==
    [][last'.call.op \in ReadOnlyOps =>
          <<issues, dependencies, labels, events, dirty_issues, export_hashes>>'
              = <<issues, dependencies, labels, events, dirty_issues, export_hashes>>]_vars

\* get_dirty_issues has answered on a store with an issue, a label, a dirty
\* mark and an export hash
C21_Witness ==
    /\ last.call.op = "get_dirty_issues"
    /\ last.result = Some(<<"bd-1">>)
    /\ IsSome(issues["bd-1"])
    /\ labels # {}
    /\ export_hashes["bd-1"] # None

\* the positions in the events table of the add_label and remove_label calls
\* for label l of issue id (sqlite.rs:308, 322)
LabelCalls(id, l) ==
    {k \in 1..Len(events) :
        /\ events[k].issue_id = id
        /\ \/ events[k].event_type = "label_added" /\ events[k].new_value = Some(l)
           \/ events[k].event_type = "label_removed" /\ events[k].old_value = Some(l)}

\* the last add_label / remove_label call for (id, l) was an add_label
LastLabelCallIsAdd(id, l) ==
    /\ LabelCalls(id, l) # {}
    /\ LET k == CHOOSE x \in LabelCalls(id, l) : \A y \in LabelCalls(id, l) : y <= x
       IN  events[k].event_type = "label_added"

\* no element of the sequence q occurs twice in it
NoRepeats(q) == \A i, j \in 1..Len(q) : q[i] = q[j] => i = j

\* C22: labels form a set per issue. get_labels(issue) lists each label at
\* most once; it lists label L exactly when the last successful add_label or
\* remove_label call for (issue, L) was an add_label, so that adding a label
\* twice gives the same list as adding it once.
C22_LabelsFormASet ==
    /\ \A l \in SyncLabels :
          \A q \in get_labels(DB, "bd-1") :
              /\ NoRepeats(q)
              /\ l \in Range(q) <=> LastLabelCallIsAdd("bd-1", l)
    /\ (last.call.op = "get_labels" /\ last.ok) =>
          /\ NoRepeats(Unwrap(last.result))
          /\ \A l \in SyncLabels :
                l \in Range(Unwrap(last.result)) <=> LastLabelCallIsAdd(last.call.id, l)

\* one label was added twice, and get_labels has listed it
C22_Witness ==
    /\ Len(events) = 2
    /\ \A k \in 1..2 :
          events[k].event_type = "label_added" /\ events[k].new_value = Some(TextA)
    /\ last.call.op = "get_labels"
    /\ last.result = Some(<<TextA>>)

(***************************************************************************)
(* Issue::validate called on issues a caller may build                     *)
(***************************************************************************)
\* the number of two-byte characters in the long title without ASCII
WideTitleChars == 251

\* a title of WideTitleChars times U+00E9, in UTF-8
WideTitle == [k \in 1..(2 * WideTitleChars) |-> IF k % 2 = 1 THEN 195 ELSE 169]

\* titles: none, short, of exactly and of one more than 500 ASCII characters,
\* and the long title without ASCII
ValidateTitles ==
    {Empty, TextA, [k \in 1..MaxTitleLen |-> 97], [k \in 1..(MaxTitleLen + 1) |-> 97],
     WideTitle}

ValidateInputs ==
    {[NewIssue("bd-1") EXCEPT !.title = t, !.priority = p, !.estimated_minutes = e,
                              !.status = st, !.closed_at = c] :
        t \in ValidateTitles, p \in {-1, 0, 4, 5}, e \in {None, Some(-1), Some(0)},
        st \in Status, c \in {None, Some("t0")}}

\* the caller builds an issue
BuildIssue ==
    /\ \E i \in ValidateInputs : candidate' = i
    /\ verdict' = None
    /\ UNCHANGED <<issueA, issueB, hashA, hashB, edits, storeVars, last, threadVars>>

\* issue.validate() returns
CallValidate ==
    /\ verdict = None
    /\ verdict' = Some(validate(candidate))
    /\ UNCHANGED <<issueA, issueB, hashA, hashB, edits, candidate, storeVars, last,
                   threadVars>>

ValidateNext == BuildIssue \/ CallValidate

SpecValidate == Init /\ [][ValidateNext]_vars

\* the number of characters of a text: its UTF-8 bytes without the
\* continuation bytes
Chars(bytes) == Cardinality({k \in 1..Len(bytes) : bytes[k] \notin 128..191})

\* C23: Issue::validate returns Ok exactly when the title is non-empty and
\* has at most 500 characters, priority is in 0..4, estimated_minutes (if
\* present) is not negative, and closed_at is present if and only if status
\* is closed.
C23_ValidateExact ==
    IsSome(verdict) =>
        (Unwrap(verdict) <=>
            /\ Chars(candidate.title) >= 1
            /\ Chars(candidate.title) <= 500
            /\ candidate.priority \in 0..4
            /\ (IsSome(candidate.estimated_minutes) =>
                    Unwrap(candidate.estimated_minutes) >= 0)
            /\ (IsSome(candidate.closed_at) <=> candidate.status = "closed"))

(***************************************************************************)
(* Threads asking one handle for child ids                                 *)
(***************************************************************************)
\* get_next_child_id is called at most this many times
MaxChildCalls == 3

\* the calls that have been made and have not returned yet
InFlight == Cardinality({t \in Threads : pc[t] # "idle"})

call_get_next_child_id(t) ==
    /\ Len(returned) + InFlight < MaxChildCalls
    /\ \E parent_id \in IssueIds :
          Invoke(t, [op |-> "get_next_child_id", parent_id |-> parent_id])

ChildNext ==
    \E t \in Threads :
        \/ call_get_next_child_id(t)
        \/ Lock(t)
        \/ Step(t)
        \/ Unlock(t)

SpecChild == Init /\ [][ChildNext]_vars

\* the ids returned for parent_id, in order of return
ReturnedFor(parent_id) ==
    SelectSeq(returned,
              LAMBDA id : /\ Len(id) > Len(IdBytes(parent_id))
                          /\ SubSeq(id, 1, Len(IdBytes(parent_id)) + 1)
                                = IdBytes(parent_id) \o <<46>>)

\* C24: get_next_child_id hands out unique hierarchical ids. For each parent
\* the successive successful calls return parent.1, parent.2, parent.3, ...,
\* nothing skipped or repeated, whatever other parents are asked for in
\* between; no two calls of any threads return the same id.
C24_ChildIdsUnique ==
    /\ \A parent_id \in IssueIds :
          \A n \in 1..Len(ReturnedFor(parent_id)) :
              ReturnedFor(parent_id)[n] = IdBytes(parent_id) \o <<46>> \o FormatInt(n)
    /\ NoRepeats(returned)

\* one call for bd-1 has returned bd-1.1; a thread is inside its call for
\* bd-1 between reading the counter and writing it, and the other thread
\* waits for the lock with a call for bd-1 of its own
C24_Witness ==
    /\ returned = <<IdBytes("bd-1") \o <<46, 49>>>>
    /\ \E t, u \in Threads :
          /\ pc[t] = "locked"
          /\ Len(todo[t]) = 1
          /\ Head(queue[t]).parent_id = "bd-1"
          /\ pc[u] = "acquire"
          /\ Head(queue[u]).parent_id = "bd-1"

\* C25: clear_dirty_issues_by_id(ids) removes the dirty mark of exactly the
\* listed ids: no listed id is dirty afterwards, the other dirty ids stay
\* dirty in the same relative order, and issues, events and export hashes are
\* unchanged. clear_dirty_issues empties the dirty set and changes nothing
\* else.
C25_ClearExactlyListed ==
    [][/\ (last'.call.op = "clear_dirty_issues_by_id" /\ last'.ok) =>
            /\ \A id \in Range(last'.call.ids) : id \notin Range(DirtyList(DB)')
            /\ DirtyList(DB)' =
                  SelectSeq(DirtyList(DB), LAMBDA x : x \notin Range(last'.call.ids))
            /\ UNCHANGED <<issues, events, export_hashes>>
       /\ (last'.call.op = "clear_dirty_issues" /\ last'.ok) =>
            /\ DirtyList(DB)' = <<>>
            /\ UNCHANGED <<issues, dependencies, labels, comments, events,
                           export_hashes, metadata, child_counters>>]_vars

\* clear_dirty_issues_by_id(["bd-1"]) has returned on a store where bd-1 and
\* bd-2 were dirty and an export hash was recorded: bd-2 is still dirty
C25_Witness ==
    /\ last.call.op = "clear_dirty_issues_by_id"
    /\ last.ok
    /\ last.call.ids = <<"bd-1">>
    /\ DirtyList(DB) = <<"bd-2">>
    /\ IsSome(issues["bd-1"])
    /\ export_hashes["bd-1"] # None

\* the fields of an issue that a lookup gives back as they were created
RoundTripFields ==
    {"id", "title", "description", "status", "priority", "issue_type", "assignee",
     "closed_at", "external_ref"}

\* C26: create/lookup round trip. get_issue(id) returns normally; for a
\* created issue it returns Some(issue) with the id, title, description,
\* status, priority, issue_type, assignee, closed_at and external_ref the
\* issue was stored with, and for an id never created it returns Ok(None).
C26_CreateLookupRoundTrip ==
    last.call.op = "get_issue" =>
        /\ last.ok
        /\ IF issues[last.call.id] = None
           THEN last.result = Some(None)
           ELSE /\ IsSome(Unwrap(last.result))
                /\ \A f \in RoundTripFields :
                      Unwrap(Unwrap(last.result))[f]
                         = [RowIssue(last.call.id, Unwrap(issues[last.call.id]))
                               EXCEPT !.id = last.call.id][f]

(***************************************************************************)
(* Threads marking issues dirty, deleting an issue and clearing marks on   *)
(* one handle                                                              *)
(***************************************************************************)
\* mutating calls are started while the events table, with the events of the
\* calls under way, has fewer rows than this
MaxDirtyEvents == 2

DirtyRoom == Len(events) + Pending(Threads) < MaxDirtyEvents

th_create_issue(t) ==
    /\ DirtyRoom
    /\ Invoke(t, [op |-> "create_issue", issue |-> NewIssue("bd-1"), actor |-> Agent])

\* bd-2 is never created
th_add_label(t) ==
    /\ DirtyRoom
    /\ Invoke(t, [op |-> "add_label", id |-> "bd-2", label |-> TextA, actor |-> Agent])

th_delete_issue(t) == Invoke(t, [op |-> "delete_issue", id |-> "bd-1"])

th_get_dirty_issues(t) == Invoke(t, [op |-> "get_dirty_issues"])

th_clear_dirty_issues(t) == Invoke(t, [op |-> "clear_dirty_issues"])

th_clear_dirty_issues_by_id(t) ==
    \E ids \in IdLists : Invoke(t, [op |-> "clear_dirty_issues_by_id", ids |-> ids])

DirtyNext ==
    \E t \in Threads :
        \/ th_create_issue(t)
        \/ th_add_label(t)
        \/ th_delete_issue(t)
        \/ th_get_dirty_issues(t)
        \/ th_clear_dirty_issues(t)
        \/ th_clear_dirty_issues_by_id(t)
        \/ Lock(t)
        \/ Step(t)
        \/ Unlock(t)

SpecDirty == Init /\ [][DirtyNext]_vars

\* a thread is inside a call that clears the mark of x
Clearing(x) ==
    \E t \in Threads :
        /\ pc[t] = "locked"
        /\ \/ Head(queue[t]).op = "clear_dirty_issues"
           \/ /\ Head(queue[t]).op = "clear_dirty_issues_by_id"
              /\ x \in Range(Head(queue[t]).ids)

\* C27: a dirty mark is removed only by clearing. Once x is in the dirty set
\* it stays there across every step of every Storage call of any thread,
\* delete_issue included, except the steps of clear_dirty_issues and of a
\* clear_dirty_issues_by_id whose list contains x.
C27_OnlyClearingUnmarks ==
    [][\A x \in IssueIds :
          (x \in Range(DirtyList(DB)) /\ x \notin Range(DirtyList(DB)'))
              => Clearing(x)]_vars

\* bd-1 was created and deleted again and is still dirty, after the mark of
\* bd-2 was cleared
C27_Witness ==
    /\ Len(events) = 2
    /\ issues["bd-1"] = None
    /\ DirtyList(DB) = <<"bd-1">>
    /\ \A t \in Threads : pc[t] = "idle"

\* C28: every id in the dirty set identifies an issue that exists in the
\* store: in every reachable state each id get_dirty_issues returns has a row
\* in table issues, also after delete_issue and after mutating calls naming
\* an id that was never created.
C28_DirtyIdsExist == \A id \in Range(DirtyList(DB)) : issues[id] # None

\* C29: the export-hash record changes only through the export-hash
\* operations. set_export_hash(X, h) makes get_export_hash(X) return Some(h)
\* and changes no other issue's export hash and no dirty mark;
\* clear_all_export_hashes makes get_export_hash return None for every issue;
\* every other call (create, update, close, dependency, label, comment, the
\* dirty-set operations, the queries) leaves what get_export_hash returns for
\* every issue as it was, and get_export_hash returns the recorded value.
C29_ExportHashFrame ==
    [][/\ (last'.call.op = "set_export_hash" /\ last'.ok) =>
            /\ \A y \in IssueIds :
                  get_export_hash(DB, y)' =
                      IF y = last'.call.id THEN Some(last'.call.hash)
                      ELSE get_export_hash(DB, y)
            /\ DirtyList(DB)' = DirtyList(DB)
       /\ (last'.call.op = "clear_all_export_hashes" /\ last'.ok) =>
            \A y \in IssueIds : get_export_hash(DB, y)' = None
       /\ last'.call.op \notin {"set_export_hash", "clear_all_export_hashes"} =>
            \A y \in IssueIds : get_export_hash(DB, y)' = get_export_hash(DB, y)
       /\ (last'.call.op = "get_export_hash" /\ last'.ok) =>
            last'.result = Some(get_export_hash(DB, last'.call.id))]_vars

\* get_export_hash(bd-1) has returned the hash recorded for bd-1, on a store
\* with events and dirty marks written after it, and nothing recorded for bd-2
C29_Witness ==
    /\ last.call.op = "get_export_hash"
    /\ last.call.id = "bd-1"
    /\ last.result = Some(Some(compute_content_hash(NewIssue("bd-1"))))
    /\ export_hashes["bd-2"] = None
    /\ Len(events) >= 1
    /\ DirtyList(DB) # <<>>

====
